---- MODULE Spec2Model ----
(***************************************************************************)
(* Model of socialmediagraphs.py: the construction of the social graph     *)
(* (a networkx DiGraph), the post filter, and the importance ranking with  *)
(* its hand-written merge sort.                                            *)
(*                                                                         *)
(* Representation.                                                         *)
(*  - A dict is a sequence of <<key, value>> pairs in insertion order with *)
(*    distinct keys.                                                       *)
(*  - A node's attribute dict is a function from attribute names to values *)
(*    (a record); the empty dict is the empty function <<>>.               *)
(*  - A DiGraph keeps one data dict per ordered pair (u, v).  The only key *)
(*    ever stored in it is connection_type, so adj maps the pair to that   *)
(*    value.                                                               *)
(*  - A Python string that is inspected character by character (content,   *)
(*    keywords) is a sequence of one-character strings.                    *)
(*  - Python lists are indexed from 0, sequences from 1: posts[i] of the   *)
(*    source is posts[i + 1] here.                                         *)
(*  - The stored user attributes username, age, posts, comments and        *)
(*    posts_read, and creation_time of posts and comments, are copied by   *)
(*    add_node exactly like gender and location and are read by nothing    *)
(*    modelled here; they are left out of the records.                     *)
(***************************************************************************)
EXTENDS Integers, Sequences, FiniteSets, TLC

VARIABLES
    pc,               \* "start" | "built" | "queried", or for sort_nodes alone
                      \* "unsorted" | "sorted" | "resorted"
    users,            \* the users argument of build_social_graph
    posts,            \* the posts argument
    comments,         \* the comments argument
    graph,            \* the DiGraph G: [order, attr, adj]
    call,             \* the last query call on the graph and what it did
    candidates,       \* the list handed to sort_nodes
    post_list         \* the list after sort_nodes

vars == <<pc, users, posts, comments, graph, call, candidates, post_list>>

(***************************************************************************)
(* Bounds of the explored inputs.                                          *)
(***************************************************************************)
MaxEntities == 2
MaxViewers == 1
MaxLen == 5
MaxScore == 2
MaxRankPosts == 2
MaxCount == 2
ImportanceBits == 2
MaxFilterPosts == 2
MaxKeywords == 2

\* The value of dict.get(k) for a missing key, and of an argument left at its
\* default None.
NoneVal == "None"

Min(a, b) == IF a <= b THEN a ELSE b
Max(a, b) == IF a >= b THEN a ELSE b

RECURSIVE Pow2(_)
Pow2(n) == IF n = 0 THEN 1 ELSE 2 * Pow2(n - 1)

(***************************************************************************)
(* networkx.DiGraph                                                        *)
(***************************************************************************)
EmptyGraph == [order |-> <<>>, attr |-> <<>>, adj |-> <<>>]

NodeSet(G) == {G.order[i] : i \in 1..Len(G.order)}

\* dict.update: the keys of new overwrite those of old, the other keys stay.
DictUpdate(old, new) ==
    [k \in (DOMAIN old) \cup (DOMAIN new) |->
        IF k \in DOMAIN new THEN new[k] ELSE old[k]]

\* dict.get(k) with the default None.
DictGet(d, k) == IF k \in DOMAIN d THEN d[k] ELSE NoneVal

\* G.add_node(n, **attr): a new node is appended with attr; for a node that is
\* already present the attributes are updated in place, without an error.
add_node(G, n, attrs) ==
    IF n \in NodeSet(G)
    THEN [G EXCEPT !.attr = [m \in DOMAIN G.attr |->
                                IF m = n THEN DictUpdate(G.attr[m], attrs)
                                         ELSE G.attr[m]]]
    ELSE [G EXCEPT !.order = Append(G.order, n),
                   !.attr = [m \in (DOMAIN G.attr) \cup {n} |->
                                IF m = n THEN attrs ELSE G.attr[m]]]

\* G.add_edge(u, v, connection_type=ct): endpoints that are absent are created
\* with an empty attribute dict (u first), and the data of the pair (u, v) is
\* updated, so a second edge on the same ordered pair replaces the
\* connection_type of the first.
add_edge(G, u, v, ct) ==
    LET G1 == IF u \in NodeSet(G) THEN G ELSE add_node(G, u, <<>>)
        G2 == IF v \in NodeSet(G1) THEN G1 ELSE add_node(G1, v, <<>>)
    IN [G2 EXCEPT !.adj = [p \in (DOMAIN G2.adj) \cup {<<u, v>>} |->
                              IF p = <<u, v>> THEN ct ELSE G2.adj[p]]]

\* Sources of the edges into n labelled ct, and targets of those out of n.
InEdges(G, n, ct) == {p[1] : p \in {q \in DOMAIN G.adj : q[2] = n /\ G.adj[q] = ct}}
OutEdges(G, n, ct) == {p[2] : p \in {q \in DOMAIN G.adj : q[1] = n /\ G.adj[q] = ct}}

(***************************************************************************)
(* build_social_graph                                                      *)
(***************************************************************************)
RECURSIVE AddUsers(_, _, _)
AddUsers(G, us, i) ==
    IF i > Len(us) THEN G
    ELSE AddUsers(add_node(G, us[i][1],
                           [type |-> "user",
                            gender |-> us[i][2].gender,
                            location |-> us[i][2].location,
                            color |-> "green"]),
                  us, i + 1)

RECURSIVE AddViewers(_, _, _, _)
AddViewers(G, post_id, viewed_by, i) ==
    IF i > Len(viewed_by) THEN G
    ELSE AddViewers(add_edge(G, viewed_by[i], post_id, "viewed"),
                    post_id, viewed_by, i + 1)

AddPost(G, post_id, post_data) ==
    LET G1 == add_node(G, post_id,
                       [type |-> "post",
                        author |-> post_data.author,
                        content |-> post_data.content,
                        comments |-> post_data.comments,
                        viewed_by |-> post_data.viewed_by,
                        color |-> "blue"])
        G2 == add_edge(G1, post_data.author, post_id, "authored")
    IN AddViewers(G2, post_id, post_data.viewed_by, 1)

RECURSIVE AddPosts(_, _, _)
AddPosts(G, ps, i) ==
    IF i > Len(ps) THEN G
    ELSE AddPosts(AddPost(G, ps[i][1], ps[i][2]), ps, i + 1)

AddComment(G, comment_id, comment_data) ==
    LET G1 == add_node(G, comment_id,
                       [type |-> "comment",
                        author |-> comment_data.author,
                        post_id |-> comment_data.post_id,
                        content |-> comment_data.content,
                        color |-> "magenta"])
        G2 == add_edge(G1, comment_data.author, comment_id, "authored")
    IN add_edge(G2, comment_id, comment_data.post_id, "commented_on")

RECURSIVE AddComments(_, _, _)
AddComments(G, cs, i) ==
    IF i > Len(cs) THEN G
    ELSE AddComments(AddComment(G, cs[i][1], cs[i][2]), cs, i + 1)

build_social_graph(us, ps, cs) ==
    AddComments(AddPosts(AddUsers(EmptyGraph, us, 1), ps, 1), cs, 1)

\* The nodes a query treats as posts (attributes.get("type") == "post"), in the
\* iteration order of graph.nodes, and likewise the user nodes.
\* The type test that only skips the user and comment nodes.
IsPostLoose(G, n) == DictGet(G.attr[n], "type") \notin {"user", "comment"}

IsPost(G, n) == DictGet(G.attr[n], "type") = "post"
IsUser(G, n) == DictGet(G.attr[n], "type") = "user"
PostNodes(G) == SelectSeq(G.order, LAMBDA n : IsPost(G, n))
UserNodes(G) == SelectSeq(G.order, LAMBDA n : IsUser(G, n))

(***************************************************************************)
(* sort_nodes and merge.  An element of posts is a pair <<post_id, score>>; *)
(* the source mutates the list in place, here each step yields the new     *)
(* list.                                                                   *)
(***************************************************************************)
\* The third loop of merge: while j < num_right.
RECURSIVE DrainRight(_, _, _, _)
DrainRight(ps, right, j, k) ==
    IF j < Len(right)
    THEN DrainRight([ps EXCEPT ![k + 1] = right[j + 1]], right, j + 1, k + 1)
    ELSE ps

\* The second loop of merge: while i < num_left; then the third loop.
RECURSIVE DrainLeft(_, _, _, _, _, _)
DrainLeft(ps, left, right, i, j, k) ==
    IF i < Len(left)
    THEN DrainLeft([ps EXCEPT ![k + 1] = left[i + 1]], left, right, i + 1, j, k + 1)
    ELSE DrainRight(ps, right, j, k)

\* MergeBoth with a strict comparison: on a tie the right element goes first.
RECURSIVE MergeBothStrict(_, _, _, _, _, _)
MergeBothStrict(ps, left, right, i, j, k) ==
    IF i < Len(left) /\ j < Len(right)
    THEN IF left[i + 1][2] > right[j + 1][2]
         THEN MergeBothStrict([ps EXCEPT ![k + 1] = left[i + 1]],
                              left, right, i + 1, j, k + 1)
         ELSE MergeBothStrict([ps EXCEPT ![k + 1] = right[j + 1]],
                              left, right, i, j + 1, k + 1)
    ELSE DrainLeft(ps, left, right, i, j, k)

\* The first loop of merge: while i < num_left and j < num_right, the left
\* element is taken when its score is >= the right one's; then the two
\* draining loops.
RECURSIVE MergeBoth(_, _, _, _, _, _)
MergeBoth(ps, left, right, i, j, k) ==
    IF i < Len(left) /\ j < Len(right)
    THEN IF left[i + 1][2] >= right[j + 1][2]
         THEN MergeBoth([ps EXCEPT ![k + 1] = left[i + 1]],
                        left, right, i + 1, j, k + 1)
         ELSE MergeBoth([ps EXCEPT ![k + 1] = right[j + 1]],
                        left, right, i, j + 1, k + 1)
    ELSE DrainLeft(ps, left, right, i, j, k)

merge(ps, begin, mid, end) ==
    LET num_left == mid - begin + 1
        num_right == end - mid
        left == [i \in 1..num_left |-> ps[begin + (i - 1) + 1]]
        right == [j \in 1..num_right |-> ps[mid + (j - 1) + 1 + 1]]
    IN MergeBoth(ps, left, right, 0, 0, begin)

\* sort_nodes that leaves the right half as it is.
RECURSIVE sort_nodes_left_only(_, _, _)
sort_nodes_left_only(ps, begin, end) ==
    IF begin >= end THEN ps
    ELSE LET mid == (begin + end) \div 2
             s1 == sort_nodes_left_only(ps, begin, mid)
         IN merge(s1, begin, mid, end)

RECURSIVE sort_nodes(_, _, _)
sort_nodes(ps, begin, end) ==
    IF begin >= end THEN ps
    ELSE LET mid == (begin + end) \div 2
             s1 == sort_nodes(ps, begin, mid)
             s2 == sort_nodes(s1, mid + 1, end)
         IN merge(s2, begin, mid, end)

(***************************************************************************)
(* display_important_posts.  views_importance is a multiple of             *)
(* 1 / ImportanceDen with ImportanceDen a power of two, which binary       *)
(* floating point represents and multiplies by small counts exactly; it is *)
(* carried as its numerator vi, and every score is carried in units of     *)
(* 1 / ImportanceDen.                                                      *)
(***************************************************************************)
ImportanceDen == Pow2(ImportanceBits)

\* The score with the two weights exchanged.
MixedScoreSwapped(ncomments, nviews, vi) ==
    vi * ncomments + (ImportanceDen - vi) * nviews

\* comments_importance * len(comments) + views_importance * len(viewed_by),
\* with comments_importance = 1 - views_importance.
MixedScore(ncomments, nviews, vi) ==
    (ImportanceDen - vi) * ncomments + vi * nviews

\* attributes.get(k, []) of a list-valued attribute.
ListAttr(d, k) == IF k \in DOMAIN d THEN d[k] ELSE <<>>

\* The list comprehension of the branch chosen by filter: one pair
\* (node, score) per post node, in the iteration order of graph.nodes.
PostScore(G, n, filter, vi) ==
    LET ncomments == Len(ListAttr(G.attr[n], "comments"))
        nviews == Len(ListAttr(G.attr[n], "viewed_by"))
    IN CASE filter = "mixed" -> MixedScore(ncomments, nviews, vi)
         [] filter = "views" -> ImportanceDen * nviews
         [] filter = "comments" -> ImportanceDen * ncomments

ScoredPosts(G, filter, vi) ==
    LET ps == PostNodes(G)
    IN [i \in 1..Len(ps) |-> <<ps[i], PostScore(G, ps[i], filter, vi)>>]

\* The slice s[:n] of Python: the first n elements for n >= 0, all but the
\* last -n elements for n < 0.
SliceTo(s, n) ==
    IF n >= 0 THEN SubSeq(s, 1, Min(n, Len(s)))
              ELSE SubSeq(s, 1, Max(0, Len(s) + n))

PostIdsOf(s) == [i \in 1..Len(s) |-> s[i][1]]

RankModes == {"mixed", "views", "comments"}

(***************************************************************************)
(* filter_posts_by_graph.  An optional argument is [given |-> FALSE] for   *)
(* None and [given |-> TRUE, val |-> v] for the value v.                   *)
(***************************************************************************)
NoneArg == [given |-> FALSE]
Given(v) == [given |-> TRUE, val |-> v]

\* The truth value of a list or None, and of a dict or None.
TruthyList(a) == a.given /\ Len(a.val) > 0
TruthyDict(a) == a.given /\ DOMAIN a.val # {}

\* str.lower() on the characters used.
LowerChar(c) == CASE c = "A" -> "a" [] c = "B" -> "b" [] OTHER -> c
Lower(str) == [i \in 1..Len(str) |-> LowerChar(str[i])]

\* sub in str
Contains(str, sub) ==
    \E off \in 0..(Len(str) - Len(sub)) :
        \A i \in 1..Len(sub) : str[off + i] = sub[i]

\* graph.nodes[post_author] if post_author in graph.nodes else {}
AuthorAttributes(G, post_author) ==
    IF post_author \in NodeSet(G) THEN G.attr[post_author] ELSE <<>>

\* all(author_attributes.get(k) == v for k, v in user_filter.items())
AllMatch(author_attributes, user_filter) ==
    \A k \in DOMAIN user_filter : DictGet(author_attributes, k) = user_filter[k]

\* any(keyword.lower() in post_content.lower() for keyword in include_keywords)
AnyKeyword(post_content, include_keywords) ==
    \E i \in 1..Len(include_keywords) :
        Contains(Lower(post_content), Lower(include_keywords[i]))

\* Whether the loop body appends the content of post node n.
Keeps(G, n, include_keywords, user_filter) ==
    /\ ~(TruthyDict(user_filter)
           /\ ~AllMatch(AuthorAttributes(G, DictGet(G.attr[n], "author")),
                        user_filter.val))
    /\ ~(TruthyList(include_keywords)
           /\ ~AnyKeyword(DictGet(G.attr[n], "content"), include_keywords.val))

\* The loop over graph.nodes(data=True) from node i on, with filtered_posts
\* the list built so far.
RECURSIVE FilterLoop(_, _, _, _, _)
FilterLoop(G, i, include_keywords, user_filter, filtered_posts) ==
    IF i > Len(G.order) THEN filtered_posts
    ELSE IF ~IsPost(G, G.order[i])
         THEN FilterLoop(G, i + 1, include_keywords, user_filter, filtered_posts)
    ELSE IF ~Keeps(G, G.order[i], include_keywords, user_filter)
         THEN FilterLoop(G, i + 1, include_keywords, user_filter, filtered_posts)
    ELSE FilterLoop(G, i + 1, include_keywords, user_filter,
                    Append(filtered_posts, DictGet(G.attr[G.order[i]], "content")))

filter_posts_by_graph(G, include_keywords, user_filter) ==
    FilterLoop(G, 1, include_keywords, user_filter, <<>>)

(***************************************************************************)
(* Input collections.                                                      *)
(***************************************************************************)
\* All dicts with n entries, keys from Keys and values from Data.
Dicts(Keys, Data, n) ==
    {s \in [1..n -> Keys \X Data] :
        \A i, j \in 1..n : i # j => s[i][1] # s[j][1]}

\* All lists over S of length at most max.
Lists(S, max) == UNION {[1..n -> S] : n \in 0..max}

KeysOf(d) == {d[i][1] : i \in 1..Len(d)}
Range(s) == {s[i] : i \in 1..Len(s)}

\* One identifier namespace: any of Keys may be a user, a post or a comment key,
\* and an author, viewer or post_id may name any of them or an id that is a
\* key of nothing.
Keys == {"x", "y"}
Refs == Keys \cup {"ghost"}

BuildUserData == [gender : {"f"}, location : {"HI"}]
\* viewed_by: up to MaxViewers viewers, or one viewer listed twice.
BuildViewers == Lists(Refs, MaxViewers) \cup {<<r, r>> : r \in Refs}
BuildPostData == [author : Refs, content : {<<"a">>}, comments : {<<>>},
                  viewed_by : BuildViewers]
BuildCommentData == [author : Refs, post_id : Refs, content : {<<"a">>}]

NoCall == [op |-> "none"]

Init ==
    /\ pc = "start"
    /\ users = <<>>
    /\ posts = <<>>
    /\ comments = <<>>
    /\ graph = EmptyGraph
    /\ call = NoCall
    /\ candidates = <<>>
    /\ post_list = <<>>

\* G = build_social_graph(users, posts, comments)
Build(us, ps, cs) ==
    /\ pc = "start"
    /\ users' = us
    /\ posts' = ps
    /\ comments' = cs
    /\ graph' = build_social_graph(us, ps, cs)
    /\ pc' = "built"
    /\ UNCHANGED <<call, candidates, post_list>>

BuildAny ==
    /\ pc = "start"
    /\ \E nu \in 0..MaxEntities :
         \E np \in 0..(MaxEntities - nu) :
           \E nc \in 0..(MaxEntities - nu - np) :
             \E us \in Dicts(Keys, BuildUserData, nu),
                ps \in Dicts(Keys, BuildPostData, np),
                cs \in Dicts(Keys, BuildCommentData, nc) :
                 Build(us, ps, cs)

NextBuild == BuildAny

SpecBuild == Init /\ [][NextBuild]_vars

(***************************************************************************)
(* Properties of the built graph.                                          *)
(***************************************************************************)
\* C1: in every built graph each post node has exactly one incoming authored
\* edge, from its author, and as many incoming viewed edges as viewed_by has
\* entries.
C1_PostEdges ==
    pc = "built" =>
        \A n \in NodeSet(graph) :
            IsPost(graph, n) =>
                /\ InEdges(graph, n, "authored") = {graph.attr[n].author}
                /\ Cardinality(InEdges(graph, n, "viewed"))
                       = Len(graph.attr[n].viewed_by)

\* The ids that are the endpoint of an edge added for the posts ps[1..i].
PostEndpoints(ps, i) ==
    UNION {{ps[j][2].author} \cup Range(ps[j][2].viewed_by) : j \in 1..i}
CommentEndpoints(cs, i) ==
    UNION {{cs[j][2].author, cs[j][2].post_id} : j \in 1..i}

\* Some add_node of the build names an id that is already a node: a key of an
\* earlier collection, or an id created before as the endpoint of an edge.
SecondInsertion(us, ps, cs) ==
    \/ \E i \in 1..Len(ps) :
          ps[i][1] \in KeysOf(us) \cup PostEndpoints(ps, i - 1)
    \/ \E i \in 1..Len(cs) :
          cs[i][1] \in KeysOf(us) \cup KeysOf(ps) \cup PostEndpoints(ps, Len(ps))
                          \cup CommentEndpoints(cs, i - 1)

\* C2: a build that inserts an id already present does not return a graph.
C2_DuplicateIsError ==
    SecondInsertion(users, posts, comments) => pc # "built"

\* C7: in every built graph each comment node has exactly one incoming
\* authored edge, from its author, and exactly one outgoing commented_on edge,
\* to its post_id.
C7_CommentEdges ==
    pc = "built" =>
        \A n \in NodeSet(graph) :
            DictGet(graph.attr[n], "type") = "comment" =>
                /\ InEdges(graph, n, "authored") = {graph.attr[n].author}
                /\ OutEdges(graph, n, "commented_on") = {graph.attr[n].post_id}

\* The ids named as an author, viewer or post_id that are a key of none of the
\* three collections.
Dangling(us, ps, cs) ==
    (PostEndpoints(ps, Len(ps)) \cup CommentEndpoints(cs, Len(cs)))
        \ (KeysOf(us) \cup KeysOf(ps) \cup KeysOf(cs))

\* C8: a dangling reference does not fail the build; it is a node with an
\* empty attribute dict that is neither among the post nodes nor among the
\* user nodes.
C8_Placeholder ==
    \A d \in Dangling(users, posts, comments) :
        /\ pc = "built"
        /\ d \in NodeSet(graph)
        /\ DOMAIN graph.attr[d] = {}
        /\ d \notin Range(PostNodes(graph))
        /\ d \notin Range(UserNodes(graph))

C8_Witness ==
    /\ pc = "built"
    /\ Dangling(users, posts, comments) # {}
    /\ Len(PostNodes(graph)) > 0
    /\ Len(UserNodes(graph)) > 0

(***************************************************************************)
(* sort_nodes on arbitrary candidate lists.  The post id of a candidate is *)
(* its position in the list handed in.                                     *)
(***************************************************************************)
CandidateLists ==
    UNION {{[i \in 1..n |-> <<i, sc[i]>>] : sc \in [1..n -> 0..MaxScore]} :
              n \in 0..MaxLen}

InitSort ==
    /\ pc = "unsorted"
    /\ candidates \in CandidateLists
    /\ post_list = candidates
    /\ users = <<>>
    /\ posts = <<>>
    /\ comments = <<>>
    /\ graph = EmptyGraph
    /\ call = NoCall

\* post_list = sort_nodes(post_list, 0, len(post_list) - 1)
Sort ==
    /\ pc = "unsorted"
    /\ post_list' = sort_nodes(post_list, 0, Len(post_list) - 1)
    /\ call' = [op |-> "sort_nodes", before |-> post_list]
    /\ pc' = "sorted"
    /\ UNCHANGED <<users, posts, comments, graph, candidates>>

\* The same call on the list that is already sorted.
Resort ==
    /\ pc = "sorted"
    /\ post_list' = sort_nodes(post_list, 0, Len(post_list) - 1)
    /\ call' = [op |-> "sort_nodes", before |-> post_list]
    /\ pc' = "resorted"
    /\ UNCHANGED <<users, posts, comments, graph, candidates>>

NextSort == Sort \/ Resort

SpecSort == InitSort /\ [][NextSort]_vars

\* The number of occurrences of e in s.
Count(s, e) == Cardinality({i \in 1..Len(s) : s[i] = e})

IsPermutation(s, t) ==
    /\ Len(s) = Len(t)
    /\ \A i \in 1..Len(s) : Count(s, s[i]) = Count(t, s[i])

NonIncreasing(s) == \A i \in 1..(Len(s) - 1) : s[i][2] >= s[i + 1][2]

\* The position of post id n in the candidate list.
CandidateIndex(n) == CHOOSE i \in 1..Len(candidates) : candidates[i][1] = n

\* s keeps candidates of equal score in the order of the candidate list.
Stable(s) ==
    \A i, j \in 1..Len(s) :
        (i < j /\ s[i][2] = s[j][2]) =>
            CandidateIndex(s[i][1]) < CandidateIndex(s[j][1])

\* C5: sort_nodes is stable: of two candidates with equal scores, the one that
\* is first in the candidate list is first in the sorted list.
C5_Stable ==
    pc \in {"sorted", "resorted"} => Stable(post_list)

C5_Witness ==
    /\ pc = "sorted"
    /\ Len(post_list) = MaxLen
    /\ \E i, j \in 1..Len(candidates) :
          /\ i + 1 < j
          /\ candidates[i][2] = candidates[j][2]
          /\ candidates[i + 1][2] > candidates[i][2]
    /\ post_list # candidates

\* C10: sort_nodes ends with a permutation of the candidate list in
\* non-increasing score order, and sorting the sorted list leaves it as it is.
C10_Sorted ==
    /\ pc \in {"sorted", "resorted"} =>
          /\ IsPermutation(post_list, candidates)
          /\ NonIncreasing(post_list)
    /\ pc = "resorted" => post_list = call.before

C10_Witness ==
    /\ pc = "resorted"
    /\ Len(post_list) = MaxLen
    /\ post_list # candidates
    /\ \E i \in 1..(Len(candidates) - 1) : candidates[i][2] < candidates[i + 1][2]

\* The same on the empty list and on a list of one element.
C10_WitnessEmpty == pc = "resorted" /\ candidates = <<>>

(***************************************************************************)
(* Ranking queries on a built graph.                                       *)
(***************************************************************************)
PostNames == <<"p1", "p2", "p3", "p4">>
ViewerNames == <<"u1", "u2", "u3", "u4">>
CommentNames == <<"c1", "c2", "c3", "c4">>

RankUsers == <<<<"u1", [gender |-> "f", location |-> "HI"]>>>>

\* Posts p1, p2, ... of u1 with 0..MaxCount comments and 0..MaxCount viewers.
RankPostData ==
    {[author |-> "u1", content |-> <<"a">>,
      comments |-> SubSeq(CommentNames, 1, c),
      viewed_by |-> SubSeq(ViewerNames, 1, v)] :
        c \in 0..MaxCount, v \in 0..MaxCount}
RankPosts ==
    UNION {{[i \in 1..k |-> <<PostNames[i], d[i]>>] : d \in [1..k -> RankPostData]} :
              k \in 0..MaxRankPosts}

BuildForRank ==
    /\ pc = "start"
    /\ \E ps \in RankPosts : Build(RankUsers, ps, <<>>)

\* display_important_posts(graph, filter, views_importance, n).  With a filter
\* that is none of the three modes no branch binds post_list, and evaluating
\* len(post_list) for the call of sort_nodes raises UnboundLocalError.
display_important_posts(filter, vi, n) ==
    /\ pc = "built"
    /\ IF filter \in RankModes
       THEN /\ candidates' = ScoredPosts(graph, filter, vi)
            /\ post_list' = sort_nodes(candidates', 0, Len(candidates') - 1)
            /\ call' = [op |-> "display_important_posts", filter |-> filter,
                        views_importance |-> vi, n |-> n,
                        error |-> "none", sorted |-> TRUE, displayed |-> TRUE,
                        important_posts |-> PostIdsOf(SliceTo(post_list', n))]
       ELSE /\ call' = [op |-> "display_important_posts", filter |-> filter,
                        views_importance |-> vi, n |-> n,
                        error |-> "UnboundLocalError", sorted |-> FALSE,
                        displayed |-> FALSE, important_posts |-> <<>>]
            /\ UNCHANGED <<candidates, post_list>>
    /\ pc' = "queried"
    /\ UNCHANGED <<users, posts, comments, graph>>

\* The call is over: its locals are gone and the graph is ready for the next
\* query.
Return ==
    /\ pc = "queried"
    /\ pc' = "built"
    /\ call' = NoCall
    /\ candidates' = <<>>
    /\ post_list' = <<>>
    /\ UNCHANGED <<users, posts, comments, graph>>

\* The filters tried: the three modes and one string that is none of them.
\* views_importance is only read in mixed mode; the other modes are called
\* with its default 0.5.
RankAny ==
    /\ pc = "built"
    /\ \E filter \in RankModes \cup {"likes"} :
         \E vi \in (IF filter = "mixed" THEN 0..ImportanceDen
                                        ELSE {ImportanceDen \div 2}) :
           \E n \in (0 - MaxRankPosts)..(MaxRankPosts + 1) :
              display_important_posts(filter, vi, n)

NextRank == BuildForRank \/ RankAny \/ Return

SpecRank == Init /\ [][NextRank]_vars

Ranked == call.op = "display_important_posts"

\* C3: a call with a filter outside the three modes fails with
\* InvalidRankingModeError before anything is sorted or displayed.
C3_InvalidMode ==
    (Ranked /\ call.filter \notin RankModes) =>
        /\ call.error = "InvalidRankingModeError"
        /\ ~call.sorted
        /\ ~call.displayed

\* C4: the ranked result has min(n, number of posts) entries when n > 0 and
\* none when n <= 0.
C4_TopN ==
    (Ranked /\ call.error = "none") =>
        Len(call.important_posts) =
            IF call.n > 0 THEN Min(call.n, Len(PostNodes(graph))) ELSE 0

\* C6: mixed mode with views_importance 0 orders the posts as comments mode
\* does, and with views_importance 1 as views mode does.
C6_MixedExtremes ==
    (Ranked /\ call.filter = "mixed") =>
        LET other(mode) ==
                LET scored == ScoredPosts(graph, mode, ImportanceDen \div 2)
                IN sort_nodes(scored, 0, Len(scored) - 1)
        IN /\ call.views_importance = 0 =>
                /\ PostIdsOf(post_list) = PostIdsOf(other("comments"))
                /\ call.important_posts
                       = PostIdsOf(SliceTo(other("comments"), call.n))
           /\ call.views_importance = ImportanceDen =>
                /\ PostIdsOf(post_list) = PostIdsOf(other("views"))
                /\ call.important_posts
                       = PostIdsOf(SliceTo(other("views"), call.n))

\* Mixed mode at weight 0 on two posts that tie on comments and whose views
\* would put them the other way round.
C6_Witness ==
    /\ Ranked
    /\ call.filter = "mixed"
    /\ call.views_importance = 0
    /\ Len(post_list) = 2
    /\ post_list[1][2] = post_list[2][2]
    /\ PostScore(graph, post_list[1][1], "views", 0)
           < PostScore(graph, post_list[2][1], "views", 0)

(***************************************************************************)
(* Filter queries on a built graph.                                        *)
(***************************************************************************)
FilterUsers ==
    {<<<<"u1", [gender |-> g, location |-> "HI"]>>>> : g \in {"f", "m"}}

\* Posts p1, p2, ... written by the user u1 or by an id that is no node's key.
FilterContents == {<<"a", "B">>, <<"b">>, <<>>}
FilterPostData ==
    [author : {"u1", "ghost"}, content : FilterContents,
     comments : {<<>>}, viewed_by : {<<>>}]
FilterPosts ==
    UNION {{[i \in 1..k |-> <<PostNames[i], d[i]>>] : d \in [1..k -> FilterPostData]} :
              k \in 0..MaxFilterPosts}

BuildForFilter ==
    /\ pc = "start"
    /\ \E us \in FilterUsers, ps \in FilterPosts : Build(us, ps, <<>>)

\* The arguments tried.  A required value may be None.
Keywords == {<<"A">>, <<"a", "b">>, <<"b", "b">>}
KeywordArgs == {NoneArg} \cup {Given(l) : l \in Lists(Keywords, MaxKeywords)}

FilterValues ==
    [gender |-> {"f", "m", NoneVal}, location |-> {"HI", NoneVal}]
UserFilters ==
    UNION {[ks -> {"f", "m", "HI", NoneVal}] : ks \in SUBSET {"gender", "location"}}
UserFilterArgs ==
    {NoneArg} \cup
    {Given(f) : f \in {g \in UserFilters : \A k \in DOMAIN g : g[k] \in FilterValues[k]}}

Filter(include_keywords, user_filter) ==
    /\ pc = "built"
    /\ call' = [op |-> "filter_posts_by_graph",
                include_keywords |-> include_keywords,
                user_filter |-> user_filter,
                result |-> filter_posts_by_graph(graph, include_keywords,
                                                 user_filter)]
    /\ pc' = "queried"
    /\ UNCHANGED <<users, posts, comments, graph, candidates, post_list>>

FilterAny ==
    /\ pc = "built"
    /\ \E kw \in KeywordArgs, uf \in UserFilterArgs : Filter(kw, uf)

NextFilter == BuildForFilter \/ FilterAny \/ Return

SpecFilter == Init /\ [][NextFilter]_vars

Filtered == call.op = "filter_posts_by_graph"

\* Every entry of the filter equals the attribute the author node has under
\* that name; an attribute the author does not have equals nothing.
EveryEntryMatches(G, author, f) ==
    \A k \in DOMAIN f :
        /\ author \in NodeSet(G)
        /\ k \in DOMAIN G.attr[author]
        /\ G.attr[author][k] = f[k]

\* At least one keyword is a substring of the content, letter case ignored.
SomeKeywordOccurs(content, kws) ==
    \E i \in 1..Len(kws) : Contains(Lower(content), Lower(kws[i]))

Selected(G, n, kw, uf) ==
    /\ \/ ~uf.given
       \/ DOMAIN uf.val = {}
       \/ EveryEntryMatches(G, G.attr[n].author, uf.val)
    /\ \/ ~kw.given
       \/ kw.val = <<>>
       \/ SomeKeywordOccurs(G.attr[n].content, kw.val)

SelectedContents(G, kw, uf) ==
    [i \in 1..Len(SelectSeq(PostNodes(G), LAMBDA n : Selected(G, n, kw, uf))) |->
        G.attr[SelectSeq(PostNodes(G), LAMBDA n : Selected(G, n, kw, uf))[i]].content]

\* C9: the result is, in post iteration order, the content of exactly the
\* posts whose author matches every entry of the attribute filter (an author
\* without attributes matching no non-empty filter) and whose content has at
\* least one of the keywords; without filters there is one entry per post.
C9_FilterResult ==
    Filtered =>
        /\ call.result = SelectedContents(graph, call.include_keywords,
                                          call.user_filter)
        /\ (~TruthyList(call.include_keywords) /\ ~TruthyDict(call.user_filter))
              => Len(call.result) = Len(PostNodes(graph))

====
